---- MODULE Spec2Model ----
(***************************************************************************)
(* Model of the test-data generation pipeline of logisticsTracker          *)
(* (generate_quick_test_data.py): entity generation, order generation,     *)
(* the grid clusterer create_simple_clusters and the driver assigner       *)
(* assign_drivers_to_orders, sequenced as in generate_all_test_data.       *)
(*                                                                         *)
(* Coordinates are integers; divisions and square roots of the source are  *)
(* computed exactly (by integer comparisons), so a bin is the floor of the *)
(* real quotient.  A Python exception is recorded in `raised` and stops    *)
(* the pipeline, as an uncaught exception does.                            *)
(***************************************************************************)
EXTENDS Integers, Sequences, FiniteSets

VARIABLES
    pc,                       \* last stage of generate_all_test_data that returned
    raised,                   \* exception that left the pipeline, or "none"
    agents,                   \* list returned by generate_field_agents
    customers,                \* list returned by generate_customers
    stores,                   \* list returned by generate_stores
    orders,                   \* the order list, mutated in place by the stages
    num_clusters,             \* argument of create_simple_clusters
    cluster_defs,             \* list returned by create_simple_clusters
    num_assigned_percentage,  \* argument of assign_drivers_to_orders
    orders_to_assign,         \* random.sample result (indices into orders)
    before,                   \* the order list as it entered assign_drivers_to_orders
    options,                  \* setup_test_data.py: the parsed command line of main()
    models_exist,             \* setup_test_data.py: both model files are on disk
    main_pc,                  \* setup_test_data.py: the step main() is at
    running,                  \* setup_test_data.py: stage whose subprocess.run is in progress
    started,                  \* setup_test_data.py: stages whose command was started, in order
    finished,                 \* setup_test_data.py: the commands that ended, with their outcome
    stage_result,             \* setup_test_data.py: what each stage function returned to main()
    exit_code                 \* setup_test_data.py: << >> while running, then <<code>>

setup_vars == <<options, models_exist, main_pc, running, started, finished,
                stage_result, exit_code>>

vars == <<pc, raised, agents, customers, stores, orders, num_clusters,
          cluster_defs, num_assigned_percentage, orders_to_assign, before,
          options, models_exist, main_pc, running, started, finished,
          stage_result, exit_code>>

----------------------------------------------------------------------------
(* Bounds of the model. *)

MaxAgents == 2
MaxOrders == 2
MaxK == 4
MaxGridOrders == 3

\* num_clusters values handed to the clusterer, invalid ones included
ClusterCounts == (0 - 1)..MaxK

\* assignment fractions f = num/den in (0, 1]
Fractions ==
    { [num |-> 1, den |-> 3], [num |-> 2, den |-> 3], [num |-> 1, den |-> 1] }

\* rows of the city sample: the places customers are located at
Cities ==
    << [latitude |-> 0,  longitude |-> 0],
       [latitude |-> 10, longitude |-> 10],
       [latitude |-> 0,  longitude |-> 10] >>

\* delivery coordinates of the orders handed to the clusterer on its own
GridCoords == {0, 5, 10}

----------------------------------------------------------------------------
(* Data. *)

None == 0

Statuses ==
    { "Pending", "Assigned", "InTransit", "Delivered",
      "Failed", "Cancelled", "Returned", "OnHold" }

Range(s) == { s[i] : i \in DOMAIN s }

SetMin(S) == CHOOSE x \in S : \A y \in S : x <= y

SetMax(S) == CHOOSE x \in S : \A y \in S : x >= y

----------------------------------------------------------------------------
(* generate_field_agents, generate_stores, generate_customers *)

FieldAgents(num_agents) == [i \in 1..num_agents |-> [id |-> i]]

StoreList(num_stores) == [i \in 1..num_stores |-> [id |-> i]]

\* customer i lives in city i % len(cities) (0-based), jitter left out
CustomerList(num_customers) ==
    [i \in 1..num_customers |->
        LET city == Cities[(i % Len(Cities)) + 1]
        IN  [id |-> i, latitude |-> city.latitude, longitude |-> city.longitude]]

(* generate_orders *)

NewOrder(customer, status) ==
    [ status            |-> status,
      deliveryLatitude  |-> customer.latitude,
      deliveryLongitude |-> customer.longitude,
      clusterId         |-> None,
      driverId          |-> None ]

----------------------------------------------------------------------------
(* create_simple_clusters *)

\* int(num_clusters ** 0.5) for num_clusters >= 0
IntSqrt(K) == CHOOSE n \in 0..K : n * n <= K /\ (n + 1) * (n + 1) > K

\* int(d / (w / num_clusters ** 0.5)) for 0 <= d <= w, w > 0, K > 0:
\* the largest n with n * w <= d * sqrt(K)
Bin(d, w, K) ==
    CHOOSE n \in 0..K :
        /\ n * n * w * w <= d * d * K
        /\ (n + 1) * (n + 1) * w * w > d * d * K

MinLat(ords) == SetMin({ ords[i].deliveryLatitude : i \in DOMAIN ords })
MaxLat(ords) == SetMax({ ords[i].deliveryLatitude : i \in DOMAIN ords })
MinLon(ords) == SetMin({ ords[i].deliveryLongitude : i \in DOMAIN ords })
MaxLon(ords) == SetMax({ ords[i].deliveryLongitude : i \in DOMAIN ords })

\* the exception create_simple_clusters raises on (ords, K), or "none"
ClusterError(ords, K) ==
    IF ords = << >> THEN "ValueError"                      \* min() of an empty sequence
    ELSE IF K = 0 THEN "ZeroDivisionError"                 \* width / 0.0
    ELSE IF K < 0 THEN                                     \* K ** 0.5 is complex
        IF MaxLat(ords) = MinLat(ords)
        THEN "ZeroDivisionError"                           \* lat_step = 0j
        ELSE "TypeError"                                   \* int(complex)
    ELSE IF MaxLat(ords) = MinLat(ords) THEN "ZeroDivisionError"   \* lat_step = 0.0
    ELSE IF MaxLon(ords) = MinLon(ords) THEN "ZeroDivisionError"   \* lon_step = 0.0
    ELSE "none"

\* the clusterId line 362 stores in order o
ClusterIdOf(o, ords, K) ==
    LET lat_bin == Bin(o.deliveryLatitude - MinLat(ords),
                       MaxLat(ords) - MinLat(ords), K)
        lon_bin == Bin(o.deliveryLongitude - MinLon(ords),
                       MaxLon(ords) - MinLon(ords), K)
        cluster_id == lat_bin * IntSqrt(K) + lon_bin + 1
    IN  IF cluster_id < K THEN cluster_id ELSE K

AssignClusterIds(ords, K) ==
    [i \in DOMAIN ords |-> [ords[i] EXCEPT !.clusterId = ClusterIdOf(ords[i], ords, K)]]

\* keys of the `clusters` dict in insertion order: cluster ids by first occurrence
RECURSIVE ClusterKeys(_, _)
ClusterKeys(ords, n) ==
    IF n = 0 THEN << >>
    ELSE LET prev == ClusterKeys(ords, n - 1)
         IN  IF ords[n].clusterId \in Range(prev)
             THEN prev
             ELSE Append(prev, ords[n].clusterId)

RECURSIVE SumOver(_, _, _)
SumOver(ords, S, field) ==
    IF S = {} THEN 0
    ELSE LET i == CHOOSE j \in S : TRUE
         IN  ords[i][field] + SumOver(ords, S \ {i}, field)

\* the quotient a / b, kept exact as numerator and denominator
Quot(a, b) == [num |-> a, den |-> b]

\* mutant: the sums are divided by the number of all orders, not of the members
ClusterDef_DivideByTotal(ords, cluster_id) ==
    LET members == { i \in DOMAIN ords : ords[i].clusterId = cluster_id }
    IN  [ id         |-> cluster_id,
          latitude   |-> Quot(SumOver(ords, members, "deliveryLatitude"), Len(ords)),
          longitude  |-> Quot(SumOver(ords, members, "deliveryLongitude"), Len(ords)),
          orderCount |-> Cardinality(members) ]

\* one cluster descriptor: latitude = lat_sum / count, longitude = lon_sum / count
ClusterDef(ords, cluster_id) ==
    LET members == { i \in DOMAIN ords : ords[i].clusterId = cluster_id }
        count   == Cardinality(members)
    IN  [ id         |-> cluster_id,
          latitude   |-> Quot(SumOver(ords, members, "deliveryLatitude"), count),
          longitude  |-> Quot(SumOver(ords, members, "deliveryLongitude"), count),
          orderCount |-> count ]

\* mutant: the descriptor of the cluster seen last is left out
ClusterDefs_DropLast(ords) ==
    LET keys == ClusterKeys(ords, Len(ords))
    IN  [k \in 1..(Len(keys) - 1) |-> ClusterDef(ords, keys[k])]

ClusterDefs(ords) ==
    LET keys == ClusterKeys(ords, Len(ords))
    IN  [k \in DOMAIN keys |-> ClusterDef(ords, keys[k])]

\* mutant: a num_clusters below 1 is quietly taken as 1 instead of failing
ClusterResult_ClampK(ords, K) ==
    LET k == IF K < 1 THEN 1 ELSE K
    IN  IF ClusterError(ords, k) # "none"
        THEN [raised |-> ClusterError(ords, k), orders |-> ords, cluster_defs |-> << >>]
        ELSE [raised       |-> "none",
              orders       |-> AssignClusterIds(ords, k),
              cluster_defs |-> ClusterDefs(AssignClusterIds(ords, k))]

\* what one call create_simple_clusters(ords, K) leaves behind: the exception
\* raised (before any order is touched) or the annotated orders and descriptors
ClusterResult(ords, K) ==
    IF ClusterError(ords, K) # "none"
    THEN [raised |-> ClusterError(ords, K), orders |-> ords, cluster_defs |-> << >>]
    ELSE [raised       |-> "none",
          orders       |-> AssignClusterIds(ords, K),
          cluster_defs |-> ClusterDefs(AssignClusterIds(ords, K))]

----------------------------------------------------------------------------
(* assign_drivers_to_orders *)

\* mutant: the product is rounded up instead of truncated
NumToAssign_RoundUp(ords, f) == (Len(ords) * f.num + f.den - 1) \div f.den

\* int(len(orders) * num_assigned_percentage)
NumToAssign(ords, f) == (Len(ords) * f.num) \div f.den

\* the possible results of random.sample(orders, k), as index sets
Samples(ords, k) == { S \in SUBSET DOMAIN ords : Cardinality(S) = k }

\* keys of the `clusters` dict built from the sample
SampledClusters(ords, S) == { ords[i].clusterId : i \in S }

AgentIds(ags) == { ags[i].id : i \in DOMAIN ags }

\* mutant: every assigned order becomes "Assigned", whatever its status was
AssignDrivers_PromoteAll(ords, S, driver) ==
    [i \in DOMAIN ords |->
        IF i \in S
        THEN [ords[i] EXCEPT
                 !.driverId = driver[ords[i].clusterId],
                 !.status   = "Assigned"]
        ELSE ords[i]]

\* mutant: the driver goes to every order of a sampled cluster, sampled or not
AssignDrivers_WholeCluster(ords, S, driver) ==
    [i \in DOMAIN ords |->
        IF ords[i].clusterId \in DOMAIN driver
        THEN [ords[i] EXCEPT
                 !.driverId = driver[ords[i].clusterId],
                 !.status   = IF @ = "Pending" THEN "Assigned" ELSE @]
        ELSE ords[i]]

\* the orders after the assignment loop, driver[c] being the agent drawn for cluster c
AssignDrivers(ords, S, driver) ==
    [i \in DOMAIN ords |->
        IF i \in S
        THEN [ords[i] EXCEPT
                 !.driverId = driver[ords[i].clusterId],
                 !.status   = IF @ = "Pending" THEN "Assigned" ELSE @]
        ELSE ords[i]]

\* mutant: an empty pool yields no driver (None) instead of an IndexError
AssignResults_NullDriver(ords, ags, S) ==
    IF ags = << >>
    THEN { [raised |-> "none",
            orders |-> AssignDrivers(ords, S, [c \in SampledClusters(ords, S) |-> None])] }
    ELSE { [raised |-> "none", orders |-> AssignDrivers(ords, S, driver)] :
             driver \in [SampledClusters(ords, S) -> AgentIds(ags)] }

\* mutant: random.choice is called once per order instead of once per cluster
AssignResults_DrawPerOrder(ords, ags, S) ==
    IF SampledClusters(ords, S) # {} /\ ags = << >>
    THEN { [raised |-> "IndexError", orders |-> ords] }
    ELSE { [raised |-> "none",
            orders |-> [i \in DOMAIN ords |->
                          IF i \in S
                          THEN [ords[i] EXCEPT
                                   !.driverId = d[i],
                                   !.status   = IF @ = "Pending" THEN "Assigned" ELSE @]
                          ELSE ords[i]]] :
             d \in [S -> AgentIds(ags)] }

\* the possible outcomes of the assignment loop for the sample S:
\* random.choice(agents) raises IndexError on an empty pool, before any order
\* of the first cluster is touched; otherwise one agent is drawn per cluster
AssignResults(ords, ags, S) ==
    IF SampledClusters(ords, S) # {} /\ ags = << >>
    THEN { [raised |-> "IndexError", orders |-> ords] }
    ELSE { [raised |-> "none", orders |-> AssignDrivers(ords, S, driver)] :
             driver \in [SampledClusters(ords, S) -> AgentIds(ags)] }

----------------------------------------------------------------------------
(* setup_test_data.py: the orchestrator main() and its three stages *)

\* the stages in the order main() goes through them
Stages == << "training", "generation", "import" >>

StageIndex(s) == CHOOSE i \in DOMAIN Stages : Stages[i] = s

\* where main() goes when stage s is skipped or has reported success
After(s) ==
    IF StageIndex(s) < Len(Stages) THEN Stages[StageIndex(s) + 1] ELSE "summary"

\* the --skip-training / --skip-generation / --skip-import flag of stage s
Skipped(opts, s) ==
    CASE s = "training"   -> opts.skip_training
      [] s = "generation" -> opts.skip_generation
      [] s = "import"     -> opts.skip_import

\* the script the stage hands to run_command
Script(opts, s) ==
    CASE s = "training"   -> "server/geomodels.py"
      [] s = "generation" -> "server/generate_test_data.py"
      [] s = "import"     -> IF opts.import_method = "api"
                             THEN "server/import_test_data.py"
                             ELSE "server/direct_import.py"

\* how a subprocess.run call can end: an exit status, or OSError when the
\* command cannot be started
CommandOutcomes == { "0", "1", "2", "OSError" }

\* run_command: True exactly when the return code is 0
RunCommand(outcome) == outcome = "0"

\* mutant: the value import_test_data returned is not looked at
MainAfterStage_ImportUnchecked(s, ok) ==
    IF ok \/ s = "import"
    THEN [main_pc |-> After(s),  exit_code |-> << >>]
    ELSE [main_pc |-> "exited",  exit_code |-> << 1 >>]

\* mutant: the value train_models returned is not looked at
MainAfterStage_TrainingUnchecked(s, ok) ==
    IF ok \/ s = "training"
    THEN [main_pc |-> After(s),  exit_code |-> << >>]
    ELSE [main_pc |-> "exited",  exit_code |-> << 1 >>]

\* what main() does with the value a stage function returned
MainAfterStage(s, ok) ==
    IF ok
    THEN [main_pc |-> After(s),  exit_code |-> << >>]
    ELSE [main_pc |-> "exited",  exit_code |-> << 1 >>]

SetupIdle ==
    /\ options = [skip_training |-> TRUE, skip_generation |-> TRUE,
                  skip_import |-> TRUE, import_method |-> "direct"]
    /\ models_exist = FALSE
    /\ main_pc = "idle"
    /\ running = "none"
    /\ started = << >>
    /\ finished = << >>
    /\ stage_result = [s \in Range(Stages) |-> "none"]
    /\ exit_code = << >>

----------------------------------------------------------------------------
(* The pipeline generate_all_test_data. *)

Init ==
    /\ pc = "start"
    /\ raised = "none"
    /\ agents = << >>
    /\ customers = << >>
    /\ stores = << >>
    /\ orders = << >>
    /\ num_clusters = 0
    /\ cluster_defs = << >>
    /\ num_assigned_percentage = [num |-> 1, den |-> 1]
    /\ orders_to_assign = {}
    /\ before = << >>
    /\ SetupIdle

GenerateEntities ==
    /\ pc = "start"
    /\ raised = "none"
    /\ \E na \in 0..MaxAgents, ns \in 0..1, nc \in 0..Len(Cities) :
          /\ agents' = FieldAgents(na)
          /\ stores' = StoreList(ns)
          /\ customers' = CustomerList(nc)
    /\ pc' = "entities"
    /\ UNCHANGED <<raised, orders, num_clusters, cluster_defs,
                   num_assigned_percentage, orders_to_assign, before>>
    /\ UNCHANGED setup_vars

GenerateOrders ==
    /\ pc = "entities"
    /\ raised = "none"
    /\ \E num_orders \in 0..MaxOrders :
          IF customers = << >> \/ stores = << >>
          THEN orders' = << >>
          ELSE \E pick \in [1..num_orders -> DOMAIN customers],
                  status \in [1..num_orders -> Statuses] :
                  orders' = [i \in 1..num_orders |->
                                NewOrder(customers[pick[i]], status[i])]
    /\ pc' = "generated"
    /\ UNCHANGED <<raised, agents, customers, stores, num_clusters, cluster_defs,
                   num_assigned_percentage, orders_to_assign, before>>
    /\ UNCHANGED setup_vars

CreateSimpleClusters ==
    /\ pc = "generated"
    /\ raised = "none"
    /\ \E K \in ClusterCounts :
          LET r == ClusterResult(orders, K)
          IN  /\ num_clusters' = K
              /\ raised' = r.raised
              /\ orders' = r.orders
              /\ cluster_defs' = r.cluster_defs
              /\ pc' = IF r.raised = "none" THEN "clustered" ELSE pc
    /\ UNCHANGED <<agents, customers, stores,
                   num_assigned_percentage, orders_to_assign, before>>
    /\ UNCHANGED setup_vars

AssignDriversToOrders ==
    /\ pc = "clustered"
    /\ raised = "none"
    /\ before' = orders
    /\ \E f \in Fractions :
          /\ num_assigned_percentage' = f
          /\ \E S \in Samples(orders, NumToAssign(orders, f)) :
                /\ orders_to_assign' = S
                /\ \E r \in AssignResults(orders, agents, S) :
                      /\ raised' = r.raised
                      /\ orders' = r.orders
                      /\ pc' = IF r.raised = "none" THEN "assigned" ELSE pc
    /\ UNCHANGED <<agents, customers, stores, num_clusters, cluster_defs>>
    /\ UNCHANGED setup_vars

Next ==
    \/ GenerateEntities
    \/ GenerateOrders
    \/ CreateSimpleClusters
    \/ AssignDriversToOrders

Spec == Init /\ [][Next]_vars

----------------------------------------------------------------------------
(* The clusterer and the assigner applied to the worked example of the     *)
(* design document: four orders at the corners of a 10 x 10 square.        *)

ExampleCustomers ==
    << [id |-> 1, latitude |-> 0,  longitude |-> 0],
       [id |-> 2, latitude |-> 0,  longitude |-> 10],
       [id |-> 3, latitude |-> 10, longitude |-> 0],
       [id |-> 4, latitude |-> 10, longitude |-> 10] >>

InitExample ==
    /\ pc = "generated"
    /\ raised = "none"
    /\ \E na \in 0..MaxAgents : agents = FieldAgents(na)
    /\ customers = ExampleCustomers
    /\ stores = StoreList(1)
    /\ \E s \in Statuses :
          orders = [i \in DOMAIN ExampleCustomers |-> NewOrder(ExampleCustomers[i], s)]
    /\ num_clusters = 0
    /\ cluster_defs = << >>
    /\ num_assigned_percentage = [num |-> 1, den |-> 1]
    /\ orders_to_assign = {}
    /\ before = << >>
    /\ SetupIdle

NextExample ==
    \/ CreateSimpleClusters
    \/ AssignDriversToOrders

SpecExample == InitExample /\ [][NextExample]_vars

----------------------------------------------------------------------------
(* create_simple_clusters applied to order lists whose delivery coordinates *)
(* range over a grid, interior points included.                             *)

InitGrid ==
    /\ pc = "generated"
    /\ raised = "none"
    /\ agents = << >>
    /\ stores = StoreList(1)
    /\ \E n \in 1..MaxGridOrders :
          \E lat \in [1..n -> GridCoords], lon \in [1..n -> GridCoords] :
              customers = [i \in 1..n |->
                              [id |-> i, latitude |-> lat[i], longitude |-> lon[i]]]
    /\ \E s \in Statuses :
          orders = [i \in DOMAIN customers |-> NewOrder(customers[i], s)]
    /\ num_clusters = 0
    /\ cluster_defs = << >>
    /\ num_assigned_percentage = [num |-> 1, den |-> 1]
    /\ orders_to_assign = {}
    /\ before = << >>
    /\ SetupIdle

NextGrid == CreateSimpleClusters

SpecGrid == InitGrid /\ [][NextGrid]_vars

----------------------------------------------------------------------------
(* The orchestrator main() of setup_test_data.py. *)

gen_vars == <<pc, raised, agents, customers, stores, orders, num_clusters,
              cluster_defs, num_assigned_percentage, orders_to_assign, before>>

InitSetup ==
    /\ pc = "start"
    /\ raised = "none"
    /\ agents = << >>
    /\ customers = << >>
    /\ stores = << >>
    /\ orders = << >>
    /\ num_clusters = 0
    /\ cluster_defs = << >>
    /\ num_assigned_percentage = [num |-> 1, den |-> 1]
    /\ orders_to_assign = {}
    /\ before = << >>
    /\ options \in [skip_training : BOOLEAN, skip_generation : BOOLEAN,
                     skip_import : BOOLEAN, import_method : {"api", "direct"}]
    /\ models_exist \in BOOLEAN
    /\ main_pc = Stages[1]
    /\ running = "none"
    /\ started = << >>
    /\ finished = << >>
    /\ stage_result = [s \in Range(Stages) |-> "none"]
    /\ exit_code = << >>

\* main() reaches the step of stage s: the stage is skipped, or its function is
\* called and either returns at once (train_models finding both model files)
\* or starts its command and waits for it
EnterStage(s) ==
    /\ main_pc = s
    /\ running = "none"
    /\ IF Skipped(options, s)
       THEN /\ main_pc' = After(s)
            /\ UNCHANGED <<running, started, stage_result>>
       ELSE IF s = "training" /\ models_exist
       THEN /\ stage_result' = [stage_result EXCEPT ![s] = "success"]
            /\ main_pc' = MainAfterStage(s, TRUE).main_pc
            /\ UNCHANGED <<running, started>>
       ELSE /\ running' = s
            /\ started' = Append(started, [stage |-> s, script |-> Script(options, s)])
            /\ UNCHANGED <<main_pc, stage_result>>
    /\ UNCHANGED <<options, models_exist, finished, exit_code>>
    /\ UNCHANGED gen_vars

TrainModels == EnterStage("training")

GenerateTestData == EnterStage("generation")

ImportTestData == EnterStage("import")

\* the command of the running stage ends: run_command returns to the stage
\* function, which returns to main(); an OSError leaves main() uncaught and the
\* interpreter exits with status 1
CommandEnds ==
    /\ running # "none"
    /\ \E outcome \in CommandOutcomes :
          /\ finished' = Append(finished, [stage |-> running, outcome |-> outcome])
          /\ IF outcome = "OSError"
             THEN /\ main_pc' = "exited"
                  /\ exit_code' = << 1 >>
                  /\ UNCHANGED stage_result
             ELSE /\ stage_result' =
                        [stage_result EXCEPT
                            ![running] = IF RunCommand(outcome) THEN "success" ELSE "failure"]
                  /\ main_pc' = MainAfterStage(running, RunCommand(outcome)).main_pc
                  /\ exit_code' = MainAfterStage(running, RunCommand(outcome)).exit_code
    /\ running' = "none"
    /\ UNCHANGED <<options, models_exist, started>>
    /\ UNCHANGED gen_vars

\* the summary is printed (its errors are caught) and main() returns 0
MainReturns ==
    /\ main_pc = "summary"
    /\ running = "none"
    /\ main_pc' = "exited"
    /\ exit_code' = << 0 >>
    /\ UNCHANGED <<options, models_exist, running, started, finished, stage_result>>
    /\ UNCHANGED gen_vars

NextSetup ==
    \/ TrainModels
    \/ GenerateTestData
    \/ ImportTestData
    \/ CommandEnds
    \/ MainReturns

SpecSetup == InitSetup /\ [][NextSetup]_vars

----------------------------------------------------------------------------
(* Properties. *)

\* create_simple_clusters has been called (and returned or raised)
ClusterCalled ==
    \/ pc \in {"clustered", "assigned"}
    \/ pc = "generated" /\ raised # "none"

\* assign_drivers_to_orders has been called (and returned or raised)
AssignCalled ==
    \/ pc = "assigned"
    \/ pc = "clustered" /\ raised # "none"

RECURSIVE OrderCountSum(_, _)
OrderCountSum(defs, n) ==
    IF n = 0 THEN 0 ELSE defs[n].orderCount + OrderCountSum(defs, n - 1)

DegenerateLat(ords) == MaxLat(ords) = MinLat(ords)

DegenerateLon(ords) == MaxLon(ords) = MinLon(ords)

Assigned(ords) == { i \in DOMAIN ords : ords[i].driverId # None }

\* the value of the quotient q is the integer n
QuotIs(q, n) == q.num = n * q.den

\* the clusterId an order would get if a zero-width axis were binned as bin 0
GuardedBin(d, w, K) == IF w = 0 THEN 0 ELSE Bin(d, w, K)

GuardedClusterId(o, ords, K) ==
    LET lat_bin == GuardedBin(o.deliveryLatitude - MinLat(ords),
                              MaxLat(ords) - MinLat(ords), K)
        lon_bin == GuardedBin(o.deliveryLongitude - MinLon(ords),
                              MaxLon(ords) - MinLon(ords), K)
        cluster_id == lat_bin * IntSqrt(K) + lon_bin + 1
    IN  IF cluster_id < K THEN cluster_id ELSE K

----------------------------------------------------------------------------
\* C1: for every K > 0 and every non-empty order set, create_simple_clusters
\* gives every order a clusterId in [1, K], and the orderCount values of the
\* emitted descriptors sum to the number of orders.
\* Violated: a zero-width bounding box makes the call raise ZeroDivisionError.
C1_ClusterIdsInRange ==
    (ClusterCalled /\ num_clusters > 0 /\ orders # << >>) =>
        /\ \A i \in DOMAIN orders : orders[i].clusterId \in 1..num_clusters
        /\ OrderCountSum(cluster_defs, Len(cluster_defs)) = Len(orders)

\* C2 (as claimed): with an empty agent pool assign_drivers_to_orders raises
\* instead of returning normally, for every order set and every f.
\* Violated: when floor(total * f) = 0 nothing is sampled and the call returns.
C2_EmptyPoolAlwaysFails ==
    (AssignCalled /\ agents = << >>) =>
        /\ raised # "none"
        /\ pc = "clustered"

\* C2 (amended): with an empty agent pool and at least one sampled order,
\* assign_drivers_to_orders raises IndexError and leaves every order as it was;
\* and it never returns with a sampled order whose driverId is null.
C2_EmptyPoolFailsWhenSampled ==
    AssignCalled =>
        /\ (agents = << >> /\ orders_to_assign # {}) =>
               (raised = "IndexError" /\ pc = "clustered" /\ orders = before)
        /\ pc = "assigned" =>
               \A i \in orders_to_assign : orders[i].driverId # None

C2_Witness ==
    /\ AssignCalled
    /\ agents = << >>
    /\ orders_to_assign # {}
    /\ raised = "IndexError"

\* C3: when all orders share one delivery latitude (or one delivery longitude),
\* create_simple_clusters completes and bins every order as bin 0 on that axis.
\* Violated: the zero step is divided by and ZeroDivisionError is raised.
C3_ZeroWidthBoxCompletes ==
    (/\ ClusterCalled
     /\ num_clusters > 0
     /\ orders # << >>
     /\ (DegenerateLat(orders) \/ DegenerateLon(orders))) =>
        /\ raised = "none"
        /\ pc # "generated"
        /\ \A i \in DOMAIN orders :
              orders[i].clusterId = GuardedClusterId(orders[i], orders, num_clusters)

\* C4: the four corner orders with K = 4 end in 4 distinct clusters of one order
\* each, every centroid being its order's coordinates.
\* Violated: (10,0) and (10,10) are both capped into cluster 4.
C4_FourCornersFourClusters ==
    (ClusterCalled /\ num_clusters = 4) =>
        /\ raised = "none"
        /\ Len(cluster_defs) = 4
        /\ \A i, j \in DOMAIN orders : i # j => orders[i].clusterId # orders[j].clusterId
        /\ \A i \in DOMAIN orders :
              \E k \in DOMAIN cluster_defs :
                  /\ cluster_defs[k].id = orders[i].clusterId
                  /\ cluster_defs[k].orderCount = 1
                  /\ QuotIs(cluster_defs[k].latitude, orders[i].deliveryLatitude)
                  /\ QuotIs(cluster_defs[k].longitude, orders[i].deliveryLongitude)

\* C5: with all driverId null on entry and a non-empty agent pool, after
\* assign_drivers_to_orders the number n of orders with a driverId is
\* floor(total * f): n <= total * f < n + 1.
C5_AssignedCountIsFloor ==
    (/\ pc = "assigned"
     /\ agents # << >>
     /\ \A i \in DOMAIN before : before[i].driverId = None) =>
        LET n == Cardinality(Assigned(orders))
            f == num_assigned_percentage
        IN  /\ n * f.den <= Len(orders) * f.num
            /\ Len(orders) * f.num < (n + 1) * f.den

C5_Witness ==
    /\ pc = "assigned"
    /\ agents # << >>
    /\ Cardinality(Assigned(orders)) > 0
    /\ Cardinality(Assigned(orders)) < Len(orders)

\* C6: after a run of assign_drivers_to_orders, two orders that both have a
\* driverId and share a clusterId have the same driverId.
C6_OneDriverPerCluster ==
    AssignCalled =>
        \A i, j \in Assigned(orders) :
            orders[i].clusterId = orders[j].clusterId =>
                orders[i].driverId = orders[j].driverId

C6_Witness ==
    /\ pc = "assigned"
    /\ Len(agents) >= 2
    /\ \E i, j \in Assigned(orders) :
          i # j /\ orders[i].clusterId = orders[j].clusterId

\* C7: an order that receives a driverId ends "Assigned" if it was "Pending",
\* and keeps its status if it had any other status.
C7_PendingBecomesAssigned ==
    pc = "assigned" =>
        \A i \in DOMAIN orders :
            (before[i].driverId = None /\ orders[i].driverId # None) =>
                /\ before[i].status = "Pending" => orders[i].status = "Assigned"
                /\ before[i].status # "Pending" => orders[i].status = before[i].status

C7_Witness ==
    /\ pc = "assigned"
    /\ \E i, j \in Assigned(orders) :
          /\ before[i].status = "Pending"
          /\ orders[i].status = "Assigned"
          /\ before[j].status \in Statuses \ {"Pending", "Assigned"}
          /\ orders[j].status = before[j].status

\* C8: an order the sample leaves out keeps driverId = null and the status it
\* had before the call.
C8_UnselectedUntouched ==
    AssignCalled =>
        \A i \in DOMAIN orders \ orders_to_assign :
            /\ orders[i].driverId = None
            /\ orders[i].status = before[i].status

C8_Witness ==
    /\ pc = "assigned"
    /\ \E i \in DOMAIN orders \ orders_to_assign, j \in orders_to_assign :
          /\ before[i].status = "Pending"
          /\ orders[i].clusterId = orders[j].clusterId
          /\ orders[j].driverId # None

\* C9: at every stage of the pipeline, a non-null clusterId is the id of an
\* emitted cluster descriptor and a non-null driverId is the id of a generated
\* agent.
C9_ReferencesResolve ==
    \A i \in DOMAIN orders :
        /\ orders[i].clusterId # None =>
              \E k \in DOMAIN cluster_defs : cluster_defs[k].id = orders[i].clusterId
        /\ orders[i].driverId # None =>
              \E a \in DOMAIN agents : agents[a].id = orders[i].driverId

C9_Witness ==
    /\ pc = "assigned"
    /\ Len(cluster_defs) >= 2
    /\ \E i \in DOMAIN orders :
          orders[i].clusterId # None /\ orders[i].driverId # None

\* C10: called with K <= 0 or with no orders, create_simple_clusters fails:
\* it raises, sets no clusterId and emits no cluster descriptor.
C10_BadInputRejected ==
    (ClusterCalled /\ (num_clusters <= 0 \/ orders = << >>)) =>
        /\ raised # "none"
        /\ pc = "generated"
        /\ \A i \in DOMAIN orders : orders[i].clusterId = None
        /\ cluster_defs = << >>

C10_Witness ==
    /\ ClusterCalled
    /\ num_clusters <= 0
    /\ orders # << >>
    /\ ~ DegenerateLat(orders)
    /\ ~ DegenerateLon(orders)
    /\ raised # "none"

----------------------------------------------------------------------------
\* the stages main() was not told to skip
NotSkipped == { s \in Range(Stages) : ~ Skipped(options, s) }

StartedStages == { started[i].stage : i \in DOMAIN started }

\* C11: main() exits with code 0 exactly when every non-skipped stage among
\* training, generation and import reported success; when a non-skipped stage
\* reported failure the exit code is non-zero.
C11_ExitZeroIffAllSucceeded ==
    main_pc = "exited" =>
        /\ Len(exit_code) = 1
        /\ exit_code[1] = 0 <=> \A s \in NotSkipped : stage_result[s] = "success"
        /\ (\E s \in NotSkipped : stage_result[s] = "failure") => exit_code[1] # 0

C11_Witness ==
    /\ main_pc = "exited"
    /\ exit_code = << 0 >>
    /\ NotSkipped = Range(Stages)
    /\ Len(finished) = Len(Stages)

\* C12: the commands of the non-skipped stages are started in the order
\* training, generation, import, each only after the one before it has ended,
\* and no stage is started once an earlier non-skipped stage has reported
\* anything but success; a run that exits with 0 has gone through all of them.
C12_StagesInOrderAbortOnFailure ==
    /\ \A i, j \in DOMAIN started :
          i < j => StageIndex(started[i].stage) < StageIndex(started[j].stage)
    /\ Len(started) = Len(finished) + (IF running = "none" THEN 0 ELSE 1)
    /\ \A i \in DOMAIN finished : finished[i].stage = started[i].stage
    /\ running # "none" => started[Len(started)].stage = running
    /\ \A s \in StartedStages :
          /\ ~ Skipped(options, s)
          /\ \A t \in NotSkipped :
                StageIndex(t) < StageIndex(s) => stage_result[t] = "success"
    /\ exit_code = << 0 >> =>
          \A s \in NotSkipped :
              s \in StartedStages \/ (s = "training" /\ models_exist)

C12_Witness ==
    /\ main_pc = "exited"
    /\ stage_result["training"] = "success"
    /\ stage_result["generation"] = "failure"
    /\ ~ options.skip_import
    /\ StartedStages = {"training", "generation"}

----------------------------------------------------------------------------
\* the sum of a field over the orders 1..n that lie in cluster c
RECURSIVE MemberTotal(_, _, _, _)
MemberTotal(ords, c, field, n) ==
    IF n = 0 THEN 0
    ELSE (IF ords[n].clusterId = c THEN ords[n][field] ELSE 0)
         + MemberTotal(ords, c, field, n - 1)

\* the quotient q is the mean of a set of n values whose sum is total
IsMean(q, total, n) == n > 0 /\ q.den # 0 /\ q.num * n = total * q.den

\* C13: every emitted cluster descriptor carries the arithmetic mean of the
\* delivery latitudes and longitudes of exactly the orders whose clusterId is
\* its id, and their number as orderCount.
C13_CentroidIsMeanOfMembers ==
    pc = "clustered" =>
        \A k \in DOMAIN cluster_defs :
            LET d == cluster_defs[k]
                n == Cardinality({ i \in DOMAIN orders : orders[i].clusterId = d.id })
            IN  /\ d.orderCount = n
                /\ IsMean(d.latitude,
                          MemberTotal(orders, d.id, "deliveryLatitude", Len(orders)), n)
                /\ IsMean(d.longitude,
                          MemberTotal(orders, d.id, "deliveryLongitude", Len(orders)), n)

C13_Witness ==
    /\ pc = "clustered"
    /\ Len(cluster_defs) >= 2
    /\ \E k \in DOMAIN cluster_defs :
          /\ cluster_defs[k].orderCount >= 2
          /\ cluster_defs[k].latitude.num % cluster_defs[k].latitude.den # 0

\* the reference grid of the design document: side = ceil(sqrt(K)),
\* step = width / side, bin = floor((x - min) / step)
RefSide(K) == CHOOSE n \in 1..K : n * n >= K /\ (n - 1) * (n - 1) < K

RefBin(d, w, side) == (d * side) \div w

RefClusterId(o, ords, K) ==
    LET side   == RefSide(K)
        binLat == RefBin(o.deliveryLatitude - MinLat(ords),
                         MaxLat(ords) - MinLat(ords), side)
        binLon == RefBin(o.deliveryLongitude - MinLon(ords),
                         MaxLon(ords) - MinLon(ords), side)
        id     == binLat * side + binLon + 1
    IN  IF id < 1 THEN 1 ELSE IF id > K THEN K ELSE id

\* C14: for every K > 0 and every order set with a non-degenerate bounding box
\* the clusterId of each order is the reference value binLat * side + binLon + 1
\* clamped to [1, K], with side = ceil(sqrt(K)).
\* Violated for K that is no perfect square: the code divides the width by
\* sqrt(K) itself and multiplies the row by floor(sqrt(K)).
C14_ClusterIdIsReference ==
    (/\ ClusterCalled
     /\ num_clusters > 0
     /\ orders # << >>
     /\ ~ DegenerateLat(orders)
     /\ ~ DegenerateLon(orders)) =>
        /\ raised = "none"
        /\ \A i \in DOMAIN orders :
              orders[i].clusterId = RefClusterId(orders[i], orders, num_clusters)

====
